---- MODULE Spec2Model ----
(***************************************************************************)
(* Receipt ingestion, category resolution and transaction writes of the    *)
(* finance tracker backend (uploadController.js, transactionController,    *)
(* categoryController.js).  Every request handler is one atomic action:    *)
(* the handlers run as one synchronous pipeline per request.  The inputs   *)
(* of the last request are kept in req, its answer in res and the engine   *)
(* invocations it made in calls.                                           *)
(*                                                                         *)
(* Optional values are sequences of length at most one: <<>> is JavaScript *)
(* null/undefined, <<x>> is the value x.                                   *)
(***************************************************************************)
EXTENDS Integers, Sequences, FiniteSets, TLC

VARIABLES categories, transactions, tempFiles, receiptFiles, nextFile, req, res, calls

vars == <<categories, transactions, tempFiles, receiptFiles, nextFile, req, res, calls>>

(***************************************************************************)
(* Bounds of the model.                                                    *)
(***************************************************************************)
MaxCats == 3
MaxTxns == 2
MaxFiles == 3

Users == {"u1", "u2"}
NoUser == "none"

None == <<>>
Some(x) == <<x>>

(***************************************************************************)
(* Names are sequences of characters, so that case folding and the         *)
(* regular expression built from a name hint are computed, not assumed.    *)
(* The alphabet has one regular-expression metacharacter, "+".             *)
(***************************************************************************)
Lower(c) ==
  CASE c = "G" -> "g"
    [] c = "S" -> "s"
    [] c = "O" -> "o"
    [] c = "F" -> "f"
    [] c = "I" -> "i"
    [] c = "R" -> "r"
    [] c = "P" -> "p"
    [] c = "A" -> "a"
    [] c = "Y" -> "y"
    [] c = "M" -> "m"
    [] c = "E" -> "e"
    [] c = "N" -> "n"
    [] c = "T" -> "t"
    [] OTHER -> c

Groceries == <<"G", "r">>
Shopping == <<"S", "h">>
OtherExpenses == <<"O", "e">>
FoodAndDining == <<"F", "d">>
Imported == <<"I", "m">>

(* new RegExp(`^${name}$`, 'i'): a pattern is a sequence of atoms, an atom *)
(* a literal character optionally followed by "+".  A "+" with nothing to  *)
(* repeat makes the constructor throw a SyntaxError.                       *)
RegexValid(p) ==
  \A i \in 1..Len(p) :
    p[i] = "+" => (i > 1 /\ p[i - 1] # "+")

RECURSIVE RegexMatchFrom(_, _, _, _)
RegexMatchFrom(p, i, s, j) ==
  IF i > Len(p) THEN j > Len(s)
  ELSE IF i < Len(p) /\ p[i + 1] = "+"
    THEN \E k \in 1..(Len(s) - j + 1) :
           /\ \A m \in j..(j + k - 1) : Lower(s[m]) = Lower(p[i])
           /\ RegexMatchFrom(p, i + 2, s, j + k)
    ELSE /\ j <= Len(s)
         /\ Lower(s[j]) = Lower(p[i])
         /\ RegexMatchFrom(p, i + 1, s, j + 1)

RegexMatch(p, s) == RegexMatchFrom(p, 1, s, 1)

(***************************************************************************)
(* The two extraction engines are external: an invocation returns a        *)
(* receipt ("ok"), throws ("throw") or returns null without an error       *)
(* ("null").                                                               *)
(***************************************************************************)
Outcomes == {"ok", "throw", "null"}
Hints == {"undefined", "textract", "tesseract", "paddle"}

(* The receipt an engine returns: the fields the handlers read *)
Receipt(engine, needsReview) ==
  [ocrEngine |-> engine, needsReview |-> needsReview,
   storeName |-> "Store", total |-> 7, date |-> "2024-01-05"]

EngineResult(engine, outcome, needsReview) ==
  IF outcome = "ok" THEN Some(Receipt(engine, needsReview)) ELSE None

(* const { ocrEngine = 'textract' } = req.body *)
DefaultEngine(hint) == IF hint = "undefined" THEN "textract" ELSE hint

(* The message of the error the first try block catches: the engine's own  *)
(* error, or the TypeError of reading extractedData.ocrEngine of null.     *)
PrimaryError(outcome) == IF outcome = "throw" THEN "EngineError" ELSE "TypeError"

FallbackWantedAlways(ocrEngine, extractedData) == TRUE

(* if (ocrEngine === 'textract' && !extractedData) *)
FallbackWanted(ocrEngine, extractedData) ==
  ocrEngine = "textract" /\ extractedData = None

(* The catch block shared by extractReceiptData and uploadReceipt.         *)
OcrAttemptPrimaryErrorOnly(ocrEngine, primary, po, fo, nr) ==
  LET first == EngineResult(primary, po, nr)
      caught == po # "ok"
      fallback == caught /\ FallbackWanted(ocrEngine, first)
      second == EngineResult("tesseract", fo, nr)
  IN [ calls |-> IF fallback THEN <<primary, "tesseract">> ELSE <<primary>>,
       ocrService |-> Some(primary),
       extractedData |-> IF fallback THEN second ELSE first,
       processingError |->
         IF ~caught THEN None
         ELSE IF ~fallback \/ fo = "throw" THEN <<PrimaryError(po)>>
         ELSE None ]

OcrAttempt(ocrEngine, primary, po, fo, nr) ==
  LET first == EngineResult(primary, po, nr)
      caught == po # "ok"
      fallback == caught /\ FallbackWanted(ocrEngine, first)
      second == EngineResult("tesseract", fo, nr)
  IN [ calls |-> IF fallback THEN <<primary, "tesseract">> ELSE <<primary>>,
       ocrService |-> Some(primary),
       extractedData |-> IF fallback THEN second ELSE first,
       processingError |->
         IF ~caught THEN None
         ELSE IF ~fallback THEN <<PrimaryError(po)>>
         ELSE IF fo = "throw" THEN <<PrimaryError(po), "EngineError">>
         ELSE None ]

(* extractReceiptData, the engine choice and the try block.                *)
ExtractOcr(hint, po, fo, nr) ==
  LET ocrEngine == DefaultEngine(hint)
      primary == IF ocrEngine = "tesseract" THEN "tesseract" ELSE "textract"
  IN OcrAttempt(ocrEngine, primary, po, fo, nr)

NoOcr == [calls |-> <<>>, ocrService |-> None, extractedData |-> None,
          processingError |-> None]

(***************************************************************************)
(* Responses.  Every response has the same fields; those a handler does    *)
(* not send are None / FALSE.                                              *)
(***************************************************************************)
Response(status, success, kind) ==
  [ status |-> status, success |-> success, kind |-> kind,
    extractedData |-> None, processingError |-> None,
    fallbackToManual |-> FALSE, needsManualReview |-> FALSE,
    transaction |-> None, message |-> None ]

NoFileResponse == Response(400, FALSE, "noFile")

NoRequest == [op |-> "none"]

(* The category stores a run starts from: empty, one shared default, or   *)
(* one category another user owns.                                         *)
SeedStores ==
  { <<>>,
    <<[name |-> Shopping, type |-> "both", userId |-> NoUser, isDefault |-> TRUE,
       parentCategory |-> 0, isActive |-> TRUE]>>,
    <<[name |-> OtherExpenses, type |-> "expense", userId |-> "u2",
       isDefault |-> FALSE, parentCategory |-> 0, isActive |-> TRUE]>> }

Init ==
  /\ categories \in SeedStores
  /\ transactions = <<>>
  /\ tempFiles = {}
  /\ receiptFiles = {}
  /\ nextFile = 1
  /\ req = NoRequest
  /\ res = Response(0, FALSE, "none")
  /\ calls = <<>>

(***************************************************************************)
(* POST /api/upload/extract-receipt                                        *)
(***************************************************************************)
extractReceiptData(u, file, hint, po, fo, nr) ==
  IF ~file
    THEN /\ req' = [op |-> "extractReceiptData", user |-> u, file |-> FALSE]
         /\ res' = NoFileResponse
         /\ calls' = <<>>
         /\ UNCHANGED <<categories, transactions, tempFiles, receiptFiles, nextFile>>
    ELSE LET ocr == ExtractOcr(hint, po, fo, nr) IN
         /\ nextFile <= MaxFiles
         /\ req' = [op |-> "extractReceiptData", user |-> u, file |-> TRUE,
                    ocrEngine |-> hint, primary |-> po,
                    fallback |-> IF Len(ocr.calls) = 2 THEN fo ELSE "unused",
                    needsReview |-> nr /\ ocr.extractedData # None]
         /\ tempFiles' = tempFiles \cup {[id |-> nextFile, owner |-> u]}
         /\ nextFile' = nextFile + 1
         /\ calls' = ocr.calls
         /\ res' =
              IF ocr.extractedData # None /\ ocr.processingError = None
                THEN [Response(200, TRUE, "extracted") EXCEPT
                        !.extractedData = ocr.extractedData]
                ELSE [Response(200, FALSE, "extractionFailed") EXCEPT
                        !.processingError = ocr.processingError,
                        !.fallbackToManual = TRUE]
         /\ UNCHANGED <<categories, transactions, receiptFiles>>

(***************************************************************************)
(* The category store.  A category's _id is its position in categories;    *)
(* findOne returns the first match in insertion order, 0 standing for      *)
(* null.                                                                   *)
(***************************************************************************)
Min(S) == CHOOSE x \in S : \A y \in S : x <= y

(* $or: [{ userId: req.user.id }, { isDefault: true }] *)
InScope(c, u) == c.userId = u \/ c.isDefault

First(S) == IF S = {} THEN 0 ELSE Min(S)

(* findOne({ name: { $regex: new RegExp(`^${name}$`, 'i') }, $or, type: { $in: types } }) *)
FindByNameTyped(cats, name, u, types) ==
  First({i \in 1..Len(cats) :
           /\ RegexMatch(name, cats[i].name)
           /\ InScope(cats[i], u)
           /\ cats[i].type \in types})

(* findOne({ name: { $regex: ... }, $or }) : no type filter *)
FindByName(cats, name, u) ==
  FindByNameTyped(cats, name, u, {"income", "expense", "both"})

(* findOne({ _id: id, $or }) *)
FindById(cats, id, u) ==
  First({i \in 1..Len(cats) : i = id /\ InScope(cats[i], u)})

(* findOne({ name: { $in: names }, $or, type: { $in: types } }) : exact names *)
FindDefault(cats, names, u, types) ==
  First({i \in 1..Len(cats) :
           /\ cats[i].name \in names
           /\ InScope(cats[i], u)
           /\ cats[i].type \in types})

(* A created category: no parent unless one is given, active *)
NewCategory(name, type, u) ==
  [name |-> name, type |-> type, userId |-> u, isDefault |-> FALSE,
   parentCategory |-> 0, isActive |-> TRUE]

ExpenseTypes == {"expense", "both"}
UploadDefaultNames == {Groceries, Shopping, OtherExpenses, FoodAndDining}
CreateDefaultNames == {Groceries, Shopping, OtherExpenses}

(* The first lookup of the receipt flows: by name when a name and no id is *)
(* given, else by id when an id is given.                                  *)
HintedLookup(cats, u, name, id) ==
  IF name # <<>> /\ id = 0 THEN FindByNameTyped(cats, name, u, ExpenseTypes)
  ELSE IF id # 0 THEN FindById(cats, id, u)
  ELSE 0

(* Find-or-create of uploadReceipt and createTransactionFromReceipt:       *)
(* threw is the SyntaxError of an invalid pattern, cats the store after    *)
(* the resolution, id the category it ended with.                          *)
ReceiptResolve(cats, u, name, id, defaultNames) ==
  IF name # <<>> /\ id = 0 /\ ~RegexValid(name)
    THEN [threw |-> TRUE, cats |-> cats, id |-> 0, created |-> FALSE]
    ELSE
      LET hinted == HintedLookup(cats, u, name, id)
          dflt == IF hinted = 0
                    THEN FindDefault(cats, defaultNames, u, ExpenseTypes)
                    ELSE hinted
      IN IF dflt # 0
           THEN [threw |-> FALSE, cats |-> cats, id |-> dflt, created |-> FALSE]
           ELSE [threw |-> FALSE,
                 cats |-> Append(cats, NewCategory(OtherExpenses, "expense", u)),
                 id |-> Len(cats) + 1, created |-> TRUE]

(***************************************************************************)
(* The transaction store.  A transaction's _id is its position.            *)
(***************************************************************************)
(* ocrService.generateTransactionData(extractedData, userId, categoryId):  *)
(* the draft of an expense transaction carrying the receipt's fields.      *)
generateTransactionData(extracted, u, categoryId) ==
  [ userId |-> u, type |-> "expense", categoryId |-> categoryId,
    amount |-> extracted.total, description |-> extracted.storeName,
    date |-> extracted.date,
    receipt |-> Some([filename |-> 0, needsReview |-> extracted.needsReview,
                      ocrEngine |-> extracted.ocrEngine]),
    isDeleted |-> FALSE, isImported |-> FALSE ]

WithReceiptFile(draft, fileId) ==
  [draft EXCEPT !.receipt = Some([draft.receipt[1] EXCEPT !.filename = fileId])]

DbOutcomes == {"ok", "createFails", "populateFails"}

(***************************************************************************)
(* POST /api/upload/receipt                                                *)
(***************************************************************************)
ForceOcrEngine == "textract"

UploadOcr(hint, auto, po, fo, nr) ==
  LET ocrEngine == DefaultEngine(hint)
      primary == IF ForceOcrEngine = "tesseract" \/ ocrEngine = "tesseract"
                   THEN "tesseract" ELSE "textract"
  IN IF auto \in {"undefined", "true"}
       THEN OcrAttempt(ocrEngine, primary, po, fo, nr)
       ELSE NoOcr

(* if (extractedData && !processingError) *)
AutoFileAllowed(ocr) ==
  ocr.extractedData # None /\ ocr.processingError = None

uploadReceipt(u, file, hint, auto, po, fo, nr, cname, cid, db) ==
  IF ~file
    THEN /\ req' = [op |-> "uploadReceipt", user |-> u, file |-> FALSE]
         /\ res' = NoFileResponse
         /\ calls' = <<>>
         /\ UNCHANGED <<categories, transactions, tempFiles, receiptFiles, nextFile>>
    ELSE
      LET ocr == UploadOcr(hint, auto, po, fo, nr)
          filing == AutoFileAllowed(ocr)
          rs == ReceiptResolve(categories, u, cname, cid, UploadDefaultNames)
          writes == filing /\ ~rs.threw /\ db # "createFails"
          draft == WithReceiptFile(
                     generateTransactionData(ocr.extractedData[1], u, rs.id), nextFile)
          answered == writes /\ db = "ok"
      IN
      /\ nextFile <= MaxFiles
      /\ (filing /\ rs.created) => Len(categories) < MaxCats
      /\ writes => Len(transactions) < MaxTxns
      /\ req' = [op |-> "uploadReceipt", user |-> u, file |-> TRUE,
                 ocrEngine |-> hint, autoProcess |-> auto,
                 primary |-> IF ocr.calls = <<>> THEN "unused" ELSE po,
                 fallback |-> IF Len(ocr.calls) = 2 THEN fo ELSE "unused",
                 needsReview |-> nr /\ ocr.extractedData # None,
                 categoryName |-> cname, categoryId |-> cid,
                 db |-> IF filing /\ ~rs.threw THEN db ELSE "unused"]
      /\ receiptFiles' = receiptFiles \cup {[id |-> nextFile, owner |-> u, from |-> 0]}
      /\ nextFile' = nextFile + 1
      /\ calls' = ocr.calls
      /\ categories' = IF filing THEN rs.cats ELSE categories
      /\ transactions' = IF writes THEN Append(transactions, draft) ELSE transactions
      /\ res' =
           IF answered
             THEN [Response(201, TRUE, "created") EXCEPT
                     !.transaction = Some([id |-> Len(transactions) + 1,
                                           categoryId |-> draft.categoryId,
                                           type |-> draft.type]),
                     !.extractedData = ocr.extractedData]
             ELSE [Response(200, TRUE, "review") EXCEPT
                     !.message = Some(IF ocr.extractedData # None
                                        THEN "Receipt processed successfully - please review"
                                        ELSE "Receipt uploaded successfully"),
                     !.extractedData = ocr.extractedData,
                     !.processingError = ocr.processingError,
                     !.needsManualReview =
                        \/ ocr.extractedData = None
                        \/ ocr.processingError # None
                        \/ ocr.extractedData[1].needsReview]
      /\ UNCHANGED tempFiles

(***************************************************************************)
(* parseFloat and the characters it reads.                                  *)
(***************************************************************************)
DigitValue(c) ==
  CASE c = "0" -> 0
    [] c = "2" -> 2
    [] c = "5" -> 5
    [] OTHER -> -1

IsDigit(c) == DigitValue(c) >= 0

(* parts[2].replace(/[$,]/g, '') *)
StripCurrency(a) == SelectSeq(a, LAMBDA c : c \notin {"$", ","})

RECURSIVE DigitsFrom(_, _, _)
(* the value of the longest run of digits of a from position i on, after acc *)
DigitsFrom(a, i, acc) ==
  IF i <= Len(a) /\ IsDigit(a[i])
    THEN DigitsFrom(a, i + 1, 10 * acc + DigitValue(a[i]))
    ELSE acc

(* parseFloat on whole numbers: an optional sign, then digits up to the    *)
(* first other character; NaN when no digit follows the sign.              *)
ParseFloat(a) ==
  LET signed == a # <<>> /\ a[1] \in {"-", "+"}
      start == IF signed THEN 2 ELSE 1
      magnitude == DigitsFrom(a, start, 0)
  IN IF start > Len(a) \/ ~IsDigit(a[start])
       THEN [nan |-> TRUE, value |-> 0]
       ELSE [nan |-> FALSE,
             value |-> IF signed /\ a[1] = "-" THEN 0 - magnitude ELSE magnitude]

(***************************************************************************)
(* POST /api/upload/create-transaction                                     *)
(* extracted and receiptInfo are sent by the client: extracted is the      *)
(* receipt it got from an extraction, receiptInfo.filename any file name.  *)
(***************************************************************************)
(* overrides: amount is absent (None) or a JSON number or string, given by *)
(* its characters; description and date are absent or a string.            *)
NoOverrides == [amount |-> None, description |-> None, date |-> None]

(* if (overrides.amount): a number is truthy unless 0, a string unless '' *)
AmountTruthy(a) ==
  /\ a # None
  /\ a[1].text # <<>>
  /\ ~(a[1].num /\ ParseFloat(a[1].text).value = 0)

StringTruthy(v) == v # None /\ v[1] # ""

(* lines 618-620 *)
ApplyOverrides(draft, overrides) ==
  [draft EXCEPT
     !.amount = IF AmountTruthy(overrides.amount)
                  THEN ParseFloat(overrides.amount[1].text).value ELSE @,
     !.description = IF StringTruthy(overrides.description)
                       THEN overrides.description[1] ELSE @,
     !.date = IF StringTruthy(overrides.date) THEN overrides.date[1] ELSE @]

createTransactionFromReceipt(u, extracted, receiptInfo, overrides, cname, cid, db) ==
  IF extracted = None \/ receiptInfo = None
    THEN /\ req' = [op |-> "createTransactionFromReceipt", user |-> u,
                    complete |-> FALSE]
         /\ res' = Response(400, FALSE, "missingData")
         /\ calls' = <<>>
         /\ UNCHANGED <<categories, transactions, tempFiles, receiptFiles, nextFile>>
    ELSE
      LET rs == ReceiptResolve(categories, u, cname, cid, CreateDefaultNames)
          writes == ~rs.threw /\ db # "createFails"
          draft == WithReceiptFile(
                     ApplyOverrides(generateTransactionData(extracted[1], u, rs.id),
                                    overrides),
                     receiptInfo[1])
          answered == writes /\ db = "ok"
      IN
      /\ rs.created => Len(categories) < MaxCats
      /\ writes => Len(transactions) < MaxTxns
      /\ req' = [op |-> "createTransactionFromReceipt", user |-> u,
                 complete |-> TRUE, extractedData |-> extracted[1],
                 needsReview |-> extracted[1].needsReview,
                 filename |-> receiptInfo[1], overrides |-> overrides,
                 categoryName |-> cname, categoryId |-> cid,
                 db |-> IF rs.threw THEN "unused" ELSE db]
      /\ calls' = <<>>
      /\ categories' = rs.cats
      /\ transactions' = IF writes THEN Append(transactions, draft) ELSE transactions
      /\ res' =
           IF answered
             THEN [Response(201, TRUE, "created") EXCEPT
                     !.transaction = Some([id |-> Len(transactions) + 1,
                                           categoryId |-> draft.categoryId,
                                           type |-> draft.type])]
             ELSE Response(500, FALSE, "error")
      /\ UNCHANGED <<tempFiles, receiptFiles, nextFile>>

(***************************************************************************)
(* POST /api/transactions                                                  *)
(***************************************************************************)
TypeCompatibleAny(category, type) == TRUE

(* category.type !== 'both' && category.type !== type, negated *)
TypeCompatible(category, type) ==
  category.type = "both" \/ category.type = type

(* The category lookup of createTransaction: status 0 is a category found  *)
(* (id), 404 and 400 the early returns, 500 the SyntaxError of an invalid  *)
(* pattern, which the handler does not catch.                              *)
ManualLookup(cats, u, name, id) ==
  IF name # <<>> /\ id = 0
    THEN IF ~RegexValid(name) THEN [status |-> 500, id |-> 0]
         ELSE LET c == FindByName(cats, name, u)
              IN IF c = 0 THEN [status |-> 404, id |-> 0] ELSE [status |-> 0, id |-> c]
  ELSE IF id # 0
    THEN LET c == FindById(cats, id, u)
         IN IF c = 0 THEN [status |-> 404, id |-> 0] ELSE [status |-> 0, id |-> c]
  ELSE [status |-> 400, id |-> 0]

(* a file of the temp directory, or the permanent file it was moved to *)
TempOrPromotedFileAt(path) ==
  {f \in tempFiles : f.id = path}
    \cup {[id |-> g.from, owner |-> g.owner] : g \in {h \in receiptFiles : h.from = path}}

(* receiptFileInfo.tempPath names a file of the temp directory: renameSync *)
(* throws when no such file exists.                                        *)
TempFileAt(path) == {f \in tempFiles : f.id = path}

ProceedsOnlyIfMoved(proceeds, moveFailed) == proceeds /\ ~moveFailed

(* catch (fileError): logged, "Proceeding with transaction creation        *)
(* without receipt attachment"                                             *)
ProceedsAfterMove(proceeds, moveFailed) == proceeds

createTransaction(u, type, cname, cid, receiptFileInfo, receiptData, db) ==
  LET found == ManualLookup(categories, u, cname, cid)
      conflict == found.status = 0 /\ ~TypeCompatible(categories[found.id], type)
      proceeds == found.status = 0 /\ ~conflict
      withReceipt == proceeds /\ receiptFileInfo # None /\ receiptData # None
      moved == IF withReceipt THEN TempFileAt(receiptFileInfo[1]) ELSE {}
      receipt == IF moved # {}
                   THEN Some([filename |-> nextFile,
                              needsReview |-> receiptData[1].needsReview,
                              ocrEngine |-> receiptData[1].ocrEngine])
                   ELSE None
      draft == [userId |-> u, type |-> type, categoryId |-> found.id,
                amount |-> 5, description |-> "Manual", date |-> "2024-01-05",
                receipt |-> receipt, isDeleted |-> FALSE,
                isImported |-> FALSE]
      moveFailed == withReceipt /\ moved = {}
      writes == ProceedsAfterMove(proceeds, moveFailed) /\ db # "createFails"
      answered == writes /\ db = "ok"
  IN
  /\ moved # {} => nextFile <= MaxFiles
  /\ writes => Len(transactions) < MaxTxns
  /\ req' = [op |-> "createTransaction", user |-> u, type |-> type,
             categoryName |-> cname, categoryId |-> cid,
             receiptFileInfo |-> receiptFileInfo, receiptData |-> receiptData,
             db |-> IF proceeds THEN db ELSE "unused"]
  /\ calls' = <<>>
  /\ tempFiles' = tempFiles \ moved
  /\ receiptFiles' = receiptFiles
       \cup {[id |-> nextFile, owner |-> f.owner, from |-> f.id] : f \in moved}
  /\ nextFile' = IF moved # {} THEN nextFile + 1 ELSE nextFile
  /\ transactions' = IF writes THEN Append(transactions, draft) ELSE transactions
  /\ res' =
       IF found.status = 404 THEN Response(404, FALSE, "notFound")
       ELSE IF found.status = 400 THEN Response(400, FALSE, "categoryRequired")
       ELSE IF found.status = 500 THEN Response(500, FALSE, "error")
       ELSE IF conflict
         THEN [Response(400, FALSE, "conflict") EXCEPT
                 !.message = Some(categories[found.id].name)]
       ELSE IF ~answered THEN Response(500, FALSE, "error")
       ELSE [Response(201, TRUE, "created") EXCEPT
               !.transaction = Some([id |-> Len(transactions) + 1,
                                     categoryId |-> draft.categoryId,
                                     type |-> draft.type,
                                     receipt |-> draft.receipt # None])]
  /\ UNCHANGED categories

(***************************************************************************)
(* PUT /api/transactions/:id                                               *)
(***************************************************************************)
(* Transaction.findOne({ _id, userId, isDeleted: false }): 0 for null *)
FindTransaction(txns, id, u) ==
  IF id \in 1..Len(txns) /\ txns[id].userId = u /\ ~txns[id].isDeleted
    THEN id ELSE 0

(* The category part of updateTransaction for the stored transaction t:    *)
(* status 0 carries newCategoryId (0 when the category is left alone), 404 *)
(* and 400 are the early returns, 500 the SyntaxError of an invalid        *)
(* pattern.  A type of "" is an absent type.                               *)
UpdateLookup(cats, u, t, type, name, id) ==
  LET transactionType == IF type # "" THEN type ELSE t.type
      checked(c) ==
        IF c = 0 THEN [status |-> 404, id |-> 0]
        ELSE IF ~TypeCompatible(cats[c], transactionType)
          THEN [status |-> 400, id |-> c]
        ELSE [status |-> 0, id |-> c]
  IN IF name # <<>> /\ id = 0
       THEN IF ~RegexValid(name) THEN [status |-> 500, id |-> 0]
            ELSE checked(FindByName(cats, name, u))
     ELSE IF id # 0 /\ id # t.categoryId
       THEN checked(FindById(cats, id, u))
     ELSE [status |-> 0, id |-> 0]

updateTransaction(u, id, type, cname, cid, db) ==
  LET tid == FindTransaction(transactions, id, u)
      t == transactions[tid]
      found == IF tid = 0 THEN [status |-> 404, id |-> 0]
               ELSE UpdateLookup(categories, u, t, type, cname, cid)
      proceeds == tid # 0 /\ found.status = 0
      updated == [t EXCEPT !.type = IF type # "" THEN type ELSE @,
                           !.categoryId = IF found.id # 0 THEN found.id ELSE @]
      saves == proceeds /\ db # "createFails"
  IN
  /\ req' = [op |-> "updateTransaction", user |-> u, id |-> id, type |-> type,
             categoryName |-> cname, categoryId |-> cid,
             db |-> IF proceeds THEN db ELSE "unused"]
  /\ calls' = <<>>
  /\ transactions' = IF saves THEN [transactions EXCEPT ![tid] = updated]
                     ELSE transactions
  /\ res' =
       IF tid = 0 THEN Response(404, FALSE, "transactionNotFound")
       ELSE IF found.status = 404 THEN Response(404, FALSE, "notFound")
       ELSE IF found.status = 500 THEN Response(500, FALSE, "error")
       ELSE IF found.status = 400
         THEN [Response(400, FALSE, "conflict") EXCEPT
                 !.message = Some(categories[found.id].name)]
       ELSE IF db # "ok" THEN Response(500, FALSE, "error")
       ELSE [Response(200, TRUE, "updated") EXCEPT
               !.transaction = Some([id |-> tid,
                                     categoryId |-> updated.categoryId,
                                     type |-> updated.type])]
  /\ UNCHANGED <<categories, tempFiles, receiptFiles, nextFile>>

(***************************************************************************)
(* POST /api/upload/transaction-history                                    *)
(* The uploaded text is a sequence of lines, the first one the header; a   *)
(* line is given by the fields the delimiter split yields: n of them, the  *)
(* date, the description and the amount (sequences of characters) and the  *)
(* category name, <<>> where the line has no such field.                   *)
(***************************************************************************)
HeaderLine == [n |-> 4, date |-> "Date", description |-> <<"D", "e", "s", "c">>,
               amount |-> <<"x">>, category |-> <<"x">>]

(* isNaN(new Date(dateStr).getTime()), negated *)
DateValid(d) == d \notin {"not-a-date", "Date", ""}

ToLowerCase(d) == [i \in 1..Len(d) |-> Lower(d[i])]

IncludesSeq(d, part) ==
  \E i \in 0..(Len(d) - Len(part)) : SubSeq(d, i + 1, i + Len(part)) = part

MentionsPaymentExactCase(d) == IncludesSeq(d, <<"P", "a", "y", "m", "e", "n", "t">>)

(* description.toLowerCase().includes('payment') *)
MentionsPayment(d) ==
  IncludesSeq(ToLowerCase(d), <<"p", "a", "y", "m", "e", "n", "t">>)

(* Math.abs *)
Abs(x) == IF x < 0 THEN 0 - x ELSE x

Includes(a, c) == \E i \in 1..Len(a) : a[i] = c

(* The body of parseTabularData's loop for one line: the candidate record, *)
(* or None for a line that is skipped.                                     *)
ParseLine(line, lineNo) ==
  LET amountStr == StripCurrency(line.amount)
      parsed == ParseFloat(amountStr)
      amount == Abs(parsed.value)
  IN IF line.n < 3 THEN None
     ELSE IF ~DateValid(line.date) THEN None
     ELSE IF parsed.nan \/ amount = 0 THEN None
     ELSE Some([ type |-> IF Includes(amountStr, "-") \/ MentionsPayment(line.description)
                            THEN "expense" ELSE "income",
                 amount |-> amount,
                 description |-> line.description,
                 categoryName |-> IF line.n >= 4 /\ line.category # <<>>
                                    THEN line.category ELSE Imported,
                 date |-> line.date,
                 line |-> lineNo ])

RECURSIVE ParseFrom(_, _)
ParseFrom(text, i) ==
  IF i > Len(text) THEN <<>>
  ELSE ParseLine(text[i], i) \o ParseFrom(text, i + 1)

(* parseTabularData: the first line is skipped as the header *)
parseTabularData(text) == ParseFrom(text, 2)

(* One pass of the loop over the candidate records: find the category by   *)
(* name (no type filter) or create it under the hint name with the         *)
(* record's type; a thrown error puts the record among the errors.         *)
ImportRecord(acc, rec, u) ==
  IF ~RegexValid(rec.categoryName)
    THEN [acc EXCEPT !.errors = Append(@, rec.line)]
    ELSE
      LET c == FindByName(acc.cats, rec.categoryName, u)
          id == IF c # 0 THEN c ELSE Len(acc.cats) + 1
      IN [ cats |-> IF c # 0 THEN acc.cats
                    ELSE Append(acc.cats, NewCategory(rec.categoryName, rec.type, u)),
           processed |-> Append(acc.processed,
                                [userId |-> u, type |-> rec.type, categoryId |-> id,
                                 amount |-> rec.amount,
                                 description |-> rec.description,
                                 date |-> rec.date,
                                 receipt |-> None, isDeleted |-> FALSE,
                                 isImported |-> TRUE]),
           errors |-> acc.errors ]

RECURSIVE ImportRecords(_, _, _, _)
ImportRecords(acc, recs, i, u) ==
  IF i > Len(recs) THEN acc
  ELSE ImportRecords(ImportRecord(acc, recs[i], u), recs, i + 1, u)

NoValidRecordsNever(recs) == FALSE

(* if (transactions.length === 0) throw *)
NoValidRecords(recs) == recs = <<>>

uploadTransactionHistory(u, file, pdf, text, db) ==
  IF ~file
    THEN /\ req' = [op |-> "uploadTransactionHistory", user |-> u, file |-> FALSE]
         /\ res' = NoFileResponse
         /\ calls' = <<>>
         /\ UNCHANGED <<categories, transactions, tempFiles, receiptFiles, nextFile>>
    ELSE
      LET recs == IF pdf THEN <<>> ELSE parseTabularData(text)
          done == ImportRecords([cats |-> categories, processed |-> <<>>,
                                 errors |-> <<>>], recs, 1, u)
          inserts == done.processed # <<>> /\ db = "ok"
      IN
      /\ Len(done.cats) <= MaxCats
      /\ inserts => Len(transactions) + Len(done.processed) <= MaxTxns
      /\ req' = [op |-> "uploadTransactionHistory", user |-> u, file |-> TRUE,
                 pdf |-> pdf, text |-> IF pdf THEN <<>> ELSE text,
                 db |-> IF done.processed # <<>> THEN db ELSE "unused"]
      /\ calls' = <<>>
      /\ categories' = done.cats
      /\ transactions' = IF inserts THEN transactions \o done.processed
                         ELSE transactions
      /\ res' =
           IF pdf THEN Response(500, FALSE, "pdfNotImplemented")
           ELSE IF NoValidRecords(recs)
             THEN [Response(500, FALSE, "noValidTransactions") EXCEPT
                     !.message = Some("No valid transactions found in the uploaded file")]
           ELSE IF done.processed # <<>> /\ ~inserts THEN Response(500, FALSE, "error")
           ELSE [Response(201, TRUE, "imported") EXCEPT
                   !.message = Some([imported |-> IF inserts THEN Len(done.processed) ELSE 0,
                                     errors |-> Len(done.errors),
                                     errorLines |-> done.errors])]
      /\ UNCHANGED <<tempFiles, receiptFiles, nextFile>>

(***************************************************************************)
(* GET /api/upload/receipt/:filename                                       *)
(***************************************************************************)
(* fs.existsSync(receiptPath): the files of uploads/receipts *)
ReceiptFileAt(filename) == {f \in receiptFiles : f.id = filename}

(* Transaction.findOne({ userId, 'receipt.filename': filename }) *)
OwnsReceipt(txns, u, filename) ==
  \E i \in 1..Len(txns) :
    /\ txns[i].userId = u
    /\ txns[i].receipt # None
    /\ txns[i].receipt[1].filename = filename

getReceiptFile(u, filename) ==
  /\ req' = [op |-> "getReceiptFile", user |-> u, filename |-> filename]
  /\ calls' = <<>>
  /\ res' =
       IF ReceiptFileAt(filename) = {} THEN Response(404, FALSE, "fileNotFound")
       ELSE IF ~OwnsReceipt(transactions, u, filename)
         THEN Response(403, FALSE, "accessDenied")
       ELSE [Response(200, TRUE, "file") EXCEPT !.message = Some(filename)]
  /\ UNCHANGED <<categories, transactions, tempFiles, receiptFiles, nextFile>>

(***************************************************************************)
(* extractReceiptData across its awaits.  The handler suspends at each      *)
(* engine call until the engine's promise settles; res.kind = "pending"    *)
(* while no response has been sent, req.awaiting is the engine in flight   *)
(* and req.settled what its promise settled with, None until it does.      *)
(***************************************************************************)
Pending == Response(0, FALSE, "pending")

(* The handler up to its first await: the upload is stored and the chosen  *)
(* engine is called.                                                       *)
extractBegin(u, hint) ==
  LET ocrEngine == DefaultEngine(hint)
      primary == IF ocrEngine = "tesseract" THEN "tesseract" ELSE "textract"
  IN /\ res.kind # "pending"
     /\ nextFile <= MaxFiles
     /\ req' = [op |-> "extractReceiptData", user |-> u, file |-> TRUE,
                ocrEngine |-> hint, awaiting |-> primary, settled |-> None,
                processingError |-> None]
     /\ tempFiles' = tempFiles \cup {[id |-> nextFile, owner |-> u]}
     /\ nextFile' = nextFile + 1
     /\ calls' = <<primary>>
     /\ res' = Pending
     /\ UNCHANGED <<categories, transactions, receiptFiles>>

(* The engine in flight settles its promise: a step of the engine, not of  *)
(* the handler.                                                            *)
engineSettles(outcome, nr) ==
  /\ res.kind = "pending"
  /\ req.settled = None
  /\ req' = [req EXCEPT !.settled = Some([outcome |-> outcome, needsReview |-> nr])]
  /\ UNCHANGED <<categories, transactions, tempFiles, receiptFiles, nextFile,
                 res, calls>>

(* The handler resumes after the await that settled: from the first call   *)
(* it falls back or answers, from the fallback call it answers.            *)
extractResume ==
  /\ res.kind = "pending"
  /\ req.settled # None
  /\ LET o == req.settled[1]
         data == EngineResult(req.awaiting, o.outcome, o.needsReview)
         caught == o.outcome # "ok"
         first == Len(calls) = 1
         fallback == first /\ caught
                       /\ FallbackWanted(DefaultEngine(req.ocrEngine), data)
         processingError ==
           IF first
             THEN IF caught THEN <<PrimaryError(o.outcome)>> ELSE None
             ELSE IF o.outcome = "throw"
                    THEN req.processingError \o <<"EngineError">>
                    ELSE None
     IN IF fallback
          THEN /\ req' = [req EXCEPT !.awaiting = "tesseract", !.settled = None,
                                     !.processingError = processingError]
               /\ calls' = Append(calls, "tesseract")
               /\ UNCHANGED res
          ELSE /\ req' = [req EXCEPT !.processingError = processingError]
               /\ res' =
                    IF data # None /\ processingError = None
                      THEN [Response(200, TRUE, "extracted") EXCEPT
                              !.extractedData = data]
                      ELSE [Response(200, FALSE, "extractionFailed") EXCEPT
                              !.processingError = processingError,
                              !.fallbackToManual = TRUE]
               /\ UNCHANGED calls
  /\ UNCHANGED <<categories, transactions, tempFiles, receiptFiles, nextFile>>

(***************************************************************************)
(* POST /api/upload/process-receipt/:filename                              *)
(* One try block around both engine calls: a throw of either call, and the *)
(* TypeError of reading a field of a null result, end in the 500 answer.   *)
(***************************************************************************)
(* if (!extractedData && ocrEngine === 'textract') *)
ReprocessFallbackWanted(ocrEngine, extractedData) ==
  extractedData = None /\ ocrEngine = "textract"

processUploadedReceipt(u, filename, hint, po, fo, nr) ==
  LET ocrEngine == DefaultEngine(hint)
      primary == IF ocrEngine = "tesseract" THEN "tesseract" ELSE "textract"
      first == EngineResult(primary, po, nr)
      fallback == po # "throw" /\ ReprocessFallbackWanted(ocrEngine, first)
      data == IF fallback THEN EngineResult("tesseract", fo, nr) ELSE first
      threw == po = "throw" \/ (fallback /\ fo = "throw") \/ data = None
  IN /\ req' = [op |-> "processUploadedReceipt", user |-> u,
                filename |-> filename, ocrEngine |-> hint, primary |-> po,
                fallback |-> fo]
     /\ IF ReceiptFileAt(filename) = {}
          THEN /\ res' = Response(404, FALSE, "fileNotFound")
               /\ calls' = <<>>
          ELSE /\ calls' = IF fallback THEN <<primary, "tesseract">>
                                       ELSE <<primary>>
               /\ res' =
                    IF threw
                      THEN [Response(500, FALSE, "error") EXCEPT
                              !.processingError =
                                 Some(IF po = "throw" \/ (fallback /\ fo = "throw")
                                        THEN "EngineError" ELSE "TypeError")]
                      ELSE [Response(200, TRUE, "processed") EXCEPT
                              !.extractedData = data]
     /\ UNCHANGED <<categories, transactions, tempFiles, receiptFiles, nextFile>>

(***************************************************************************)
(* Two uploadReceipt requests of one user in flight together, each across  *)
(* its awaits of the store: the lookup by the name hint, the lookup of the *)
(* default names, Category.create and Transaction.create.  Both receipts   *)
(* were read cleanly.  req.pc[r] is the await request r is suspended at,   *)
(* req.category[r] the category it holds, res the last answer sent.        *)
(***************************************************************************)
Requests == {1, 2}

InFlight == req.op = "uploadReceiptPair" /\ \E r \in Requests : req.pc[r] # "done"

uploadPairBegin(u, cname) ==
  /\ ~InFlight
  /\ nextFile + 1 <= MaxFiles
  /\ Len(transactions) + 2 <= MaxTxns
  /\ Len(categories) + 2 <= MaxCats
  /\ RegexValid(cname)
  /\ req' = [op |-> "uploadReceiptPair", user |-> u, categoryName |-> cname,
             unmatched |->
               ReceiptResolve(categories, u, cname, 0, UploadDefaultNames).created,
             before |-> Len(categories),
             file |-> [r \in Requests |-> nextFile + r - 1],
             pc |-> [r \in Requests |-> "findHinted"],
             category |-> [r \in Requests |-> 0]]
  /\ receiptFiles' = receiptFiles \cup
       {[id |-> nextFile + r - 1, owner |-> u, from |-> 0] : r \in Requests}
  /\ nextFile' = nextFile + 2
  /\ calls' = <<"textract", "textract">>
  /\ res' = Pending
  /\ UNCHANGED <<categories, transactions, tempFiles>>

(* category = await Category.findOne({ name: { $regex }, $or, type }) *)
uploadFindHinted(r) ==
  /\ req.op = "uploadReceiptPair" /\ req.pc[r] = "findHinted"
  /\ LET c == HintedLookup(categories, req.user, req.categoryName, 0)
     IN req' = [req EXCEPT !.category[r] = c,
                           !.pc[r] = IF c # 0 THEN "write" ELSE "findDefault"]
  /\ UNCHANGED <<categories, transactions, tempFiles, receiptFiles, nextFile,
                 res, calls>>

(* if (!category) category = await Category.findOne({ name: { $in }, ... }) *)
uploadFindDefault(r) ==
  /\ req.op = "uploadReceiptPair" /\ req.pc[r] = "findDefault"
  /\ LET c == FindDefault(categories, UploadDefaultNames, req.user, ExpenseTypes)
     IN req' = [req EXCEPT !.category[r] = c,
                           !.pc[r] = IF c # 0 THEN "write" ELSE "create"]
  /\ UNCHANGED <<categories, transactions, tempFiles, receiptFiles, nextFile,
                 res, calls>>

(* if (!category) category = await Category.create({ name: 'Other Expenses', ... }) *)
uploadCreateCategory(r) ==
  /\ req.op = "uploadReceiptPair" /\ req.pc[r] = "create"
  /\ categories' = Append(categories, NewCategory(OtherExpenses, "expense", req.user))
  /\ req' = [req EXCEPT !.category[r] = Len(categories) + 1, !.pc[r] = "write"]
  /\ UNCHANGED <<transactions, tempFiles, receiptFiles, nextFile, res, calls>>

(* Transaction.create, populate and the 201 answer *)
uploadWrite(r) ==
  /\ req.op = "uploadReceiptPair" /\ req.pc[r] = "write"
  /\ LET draft == WithReceiptFile(
                    generateTransactionData(Receipt("textract", FALSE), req.user,
                                            req.category[r]),
                    req.file[r])
     IN /\ transactions' = Append(transactions, draft)
        /\ res' = [Response(201, TRUE, "created") EXCEPT
                     !.transaction = Some([id |-> Len(transactions) + 1,
                                           categoryId |-> draft.categoryId,
                                           type |-> draft.type]),
                     !.extractedData = Some(Receipt("textract", FALSE))]
  /\ req' = [req EXCEPT !.pc[r] = "done"]
  /\ UNCHANGED <<categories, tempFiles, receiptFiles, nextFile, calls>>

(***************************************************************************)
(* The category controller.  A deleted category leaves its position to     *)
(* Removed, which no lookup matches: it has no owner, is no default and    *)
(* has no category type.                                                   *)
(***************************************************************************)
Removed ==
  [name |-> <<>>, type |-> "removed", userId |-> NoUser, isDefault |-> FALSE,
   parentCategory |-> 0, isActive |-> FALSE]

(* findOne({ name: { $regex }, userId, type, _id: { $ne: except } }) *)
FindOwnByNameAndType(cats, name, u, type, except) ==
  First({i \in 1..Len(cats) :
           /\ RegexMatch(name, cats[i].name)
           /\ cats[i].userId = u
           /\ cats[i].type = type
           /\ i # except})

(* findOne({ _id: id, userId }) *)
FindOwn(cats, id, u) ==
  First({i \in 1..Len(cats) : i = id /\ cats[i].userId = u})

(* POST /api/categories *)
createCategory(u, name, type, parentCategory) ==
  LET invalid == ~RegexValid(name)
      existing == IF invalid THEN 0
                  ELSE FindOwnByNameAndType(categories, name, u, type, 0)
      parent == IF parentCategory # 0
                  THEN FindById(categories, parentCategory, u) ELSE 0
      creates == ~invalid /\ existing = 0 /\ (parentCategory # 0 => parent # 0)
  IN /\ creates => Len(categories) < MaxCats
     /\ req' = [op |-> "createCategory", user |-> u, name |-> name, type |-> type,
                parentCategory |-> parentCategory]
     /\ calls' = <<>>
     /\ categories' =
          IF creates
            THEN Append(categories,
                        [NewCategory(name, type, u) EXCEPT
                           !.parentCategory = parentCategory])
            ELSE categories
     /\ res' = IF invalid THEN Response(500, FALSE, "error")
               ELSE IF existing # 0 THEN Response(400, FALSE, "categoryExists")
               ELSE IF ~creates THEN Response(404, FALSE, "parentNotFound")
               ELSE Response(201, TRUE, "categoryCreated")
     /\ UNCHANGED <<transactions, tempFiles, receiptFiles, nextFile>>

(* if (name && name !== category.name) *)
NameChecked(name, category) == name # <<>> /\ name # category.name

(* PUT /api/categories/:id.  An absent name is <<>>, an absent type "",     *)
(* an absent parentCategory -1 and a null one 0, an absent isActive        *)
(* "undefined".                                                            *)
updateCategory(u, id, name, type, parentCategory, isActive) ==
  LET cid == FindOwn(categories, id, u)
      category == categories[cid]
      checked == cid # 0 /\ NameChecked(name, category)
      invalid == checked /\ ~RegexValid(name)
      existing ==
        IF checked /\ ~invalid
          THEN FindOwnByNameAndType(categories, name, u,
                                    IF type # "" THEN type ELSE category.type, cid)
          ELSE 0
      reparents == cid # 0 /\ parentCategory > 0
                     /\ parentCategory # category.parentCategory
      parent == IF reparents THEN FindById(categories, parentCategory, u) ELSE 0
      circular == parent # 0 /\ categories[parent].parentCategory = cid
      saves == /\ cid # 0 /\ ~invalid /\ existing = 0
               /\ (reparents => (parent # 0 /\ ~circular))
  IN /\ req' = [op |-> "updateCategory", user |-> u, id |-> id, name |-> name,
                type |-> type, parentCategory |-> parentCategory,
                isActive |-> isActive]
     /\ calls' = <<>>
     /\ categories' =
          IF saves
            THEN [categories EXCEPT
                    ![cid] = [category EXCEPT
                      !.name = IF name # <<>> THEN name ELSE @,
                      !.type = IF type # "" THEN type ELSE @,
                      !.parentCategory =
                         IF parentCategory # -1 THEN parentCategory ELSE @,
                      !.isActive =
                         IF isActive # "undefined" THEN isActive = "true" ELSE @]]
            ELSE categories
     /\ res' = IF cid = 0 THEN Response(404, FALSE, "categoryNotFound")
               ELSE IF invalid THEN Response(500, FALSE, "error")
               ELSE IF existing # 0 THEN Response(400, FALSE, "categoryExists")
               ELSE IF reparents /\ parent = 0
                 THEN Response(404, FALSE, "parentNotFound")
               ELSE IF circular THEN Response(400, FALSE, "circular")
               ELSE Response(200, TRUE, "categoryUpdated")
     /\ UNCHANGED <<transactions, tempFiles, receiptFiles, nextFile>>

TransactionCountZero(txns, id) == 0

(* Transaction.countDocuments({ categoryId, isDeleted: false }) *)
TransactionCount(txns, id) ==
  Cardinality({i \in 1..Len(txns) : txns[i].categoryId = id /\ ~txns[i].isDeleted})

(* Category.countDocuments({ parentCategory, isActive: true }) *)
SubcategoryCount(cats, id) ==
  Cardinality({i \in 1..Len(cats) : cats[i].parentCategory = id /\ cats[i].isActive})

(* DELETE /api/categories/:id *)
deleteCategory(u, id) ==
  LET cid == FindOwn(categories, id, u)
      transactionCount == IF cid # 0 THEN TransactionCount(transactions, cid) ELSE 0
      subcategoryCount == IF cid # 0 THEN SubcategoryCount(categories, cid) ELSE 0
      deletes == cid # 0 /\ transactionCount = 0 /\ subcategoryCount = 0
  IN /\ req' = [op |-> "deleteCategory", user |-> u, id |-> id]
     /\ calls' = <<>>
     /\ categories' = IF deletes THEN [categories EXCEPT ![cid] = Removed]
                                 ELSE categories
     /\ res' = IF cid = 0 THEN Response(404, FALSE, "categoryNotFound")
               ELSE IF transactionCount > 0 THEN Response(400, FALSE, "inUse")
               ELSE IF subcategoryCount > 0
                 THEN Response(400, FALSE, "hasSubcategories")
               ELSE Response(200, TRUE, "categoryDeleted")
     /\ UNCHANGED <<transactions, tempFiles, receiptFiles, nextFile>>

(* DELETE /api/transactions/:id : transaction.softDelete() *)
deleteTransaction(u, id) ==
  LET tid == FindTransaction(transactions, id, u)
  IN /\ req' = [op |-> "deleteTransaction", user |-> u, id |-> id]
     /\ calls' = <<>>
     /\ transactions' =
          IF tid # 0 THEN [transactions EXCEPT ![tid].isDeleted = TRUE]
                     ELSE transactions
     /\ res' = IF tid = 0 THEN Response(404, FALSE, "transactionNotFound")
               ELSE Response(200, TRUE, "transactionDeleted")
     /\ UNCHANGED <<categories, tempFiles, receiptFiles, nextFile>>

(***************************************************************************)
(* Inputs.  An input a request does not read is given one value only, so   *)
(* that requests differing in an unread input are not told apart.          *)
(***************************************************************************)
(* body('ocrEngine').optional().isIn(['tesseract', 'textract']) *)
UploadHints == {"undefined", "textract", "tesseract"}
AutoValues == {"undefined", "true", "false"}

(* <<primary outcome, fallback outcome, needsReview of the receipt>> *)
OcrInputs ==
  {o \in Outcomes \X Outcomes \X BOOLEAN :
     /\ o[1] = "ok" => o[2] = "ok"
     /\ (o[1] # "ok" /\ o[2] # "ok") => o[3] = FALSE}

(* <<ocrEngine, autoProcess, OcrInputs, outcome of the transaction write>> *)
UploadInputs ==
  {i \in UploadHints \X AutoValues \X OcrInputs \X DbOutcomes :
     /\ i[2] = "false" => (i[1] = "undefined" /\ i[3] = <<"ok", "ok", FALSE>>)
     /\ (i[2] = "false" \/ (i[3][1] # "ok" /\ i[3][2] # "ok")) => i[4] = "ok"}

(***************************************************************************)
(* Extraction: every engine hint and engine outcome, no category hints.    *)
(***************************************************************************)
NextOcr ==
  \/ extractReceiptData("u1", FALSE, "undefined", "ok", "ok", FALSE)
  \/ \E hint \in Hints, o \in OcrInputs :
       extractReceiptData("u1", TRUE, hint, o[1], o[2], o[3])
  \/ uploadReceipt("u1", FALSE, "undefined", "true", "ok", "ok", FALSE, <<>>, 0, "ok")
  \/ \E i \in UploadInputs :
       uploadReceipt("u1", TRUE, i[1], i[2], i[3][1], i[3][2], i[3][3], <<>>, 0, i[4])

SpecOcr == Init /\ [][NextOcr]_vars

(***************************************************************************)
(* Category resolution and transaction writes: user u1's requests with     *)
(* every category hint, the engines returning a receipt.                   *)
(***************************************************************************)
NameHints == { <<>>, <<"o", "e">>, <<"g", "r">>, <<"R", "+">>, <<"+">> }

(* <<categoryName, categoryId>>: a name is read only when no id is given *)
CatHints ==
  {<<n, 0>> : n \in NameHints} \cup {<<(<<>>), i>> : i \in 1..MaxCats}

Types == {"income", "expense"}

CleanReceipt == Receipt("textract", FALSE)

MaxLines == 2

DataLine(amount, category) ==
  [n |-> IF category = <<>> THEN 3 ELSE 4, date |-> "2024-01-05",
   description |-> <<"S", "h", "o", "p">>, amount |-> amount, category |-> category]

CatLines ==
  { DataLine(<<"-", "5">>, <<"g", "r">>), DataLine(<<"5">>, <<"g", "r">>),
    DataLine(<<"-", "5">>, <<"R", "+">>), DataLine(<<"5">>, <<"+">>),
    DataLine(<<"5">>, <<>>) }

TextsOf(lines) ==
  { <<HeaderLine>> \o t : t \in UNION { [1..k -> lines] : k \in 1..MaxLines } }

CatTexts == TextsOf(CatLines)

NextCat ==
  \/ \E h \in CatHints :
       uploadReceipt("u1", TRUE, "undefined", "true", "ok", "ok", FALSE, h[1], h[2], "ok")
  \/ \E h \in CatHints :
       createTransactionFromReceipt("u1", Some(CleanReceipt), Some(1), NoOverrides,
                                    h[1], h[2], "ok")
  \/ \E text \in CatTexts :
       uploadTransactionHistory("u1", TRUE, FALSE, text, "ok")

SpecCat == Init /\ [][NextCat]_vars

(***************************************************************************)
(* Manual entry: createTransaction with and without a temp receipt, after  *)
(* extractions that leave temp files and uploads and imports that leave    *)
(* categories of either type.                                              *)
(***************************************************************************)
ManualTexts == TextsOf({DataLine(<<"5">>, <<"g", "r">>)})

ManualHints ==
  {<<n, 0>> : n \in {<<"o", "e">>, <<"R", "+">>, <<"+">>}}
    \cup {<<(<<>>), i>> : i \in 0..MaxCats}

(* <<receiptFileInfo, db>> *)
ManualWrites == {<<None, "ok">>} \cup {<<Some(1), db>> : db \in DbOutcomes}

NextManual ==
  \/ extractReceiptData("u1", TRUE, "undefined", "ok", "ok", FALSE)
  \/ uploadReceipt("u1", TRUE, "undefined", "true", "ok", "ok", FALSE, <<>>, 0, "ok")
  \/ \E text \in ManualTexts :
       uploadTransactionHistory("u1", TRUE, FALSE, text, "ok")
  \/ \E type \in Types, h \in ManualHints, w \in ManualWrites :
       createTransaction("u1", type, h[1], h[2], w[1],
                         IF w[1] = None THEN None ELSE Some(CleanReceipt), w[2])

SpecManual == Init /\ [][NextManual]_vars

(***************************************************************************)
(* Promotion of temp receipts: createTransaction with every handle, after  *)
(* extractions that leave temp files and uploads that leave receipt files. *)
(***************************************************************************)
ReceiptHandles == {None} \cup {Some(i) : i \in 1..MaxFiles}

NextPromote ==
  \/ extractReceiptData("u1", TRUE, "undefined", "ok", "ok", FALSE)
  \/ uploadReceipt("u1", TRUE, "undefined", "true", "ok", "ok", FALSE, <<>>, 0, "ok")
  \/ \E type \in Types, handle \in ReceiptHandles, db \in DbOutcomes :
       createTransaction("u1", type, <<>>, 1, handle,
                         IF handle = None THEN None ELSE Some(CleanReceipt), db)

SpecPromote == Init /\ [][NextPromote]_vars

(***************************************************************************)
(* Updates: updateTransaction on the transactions that createTransaction   *)
(* and an import wrote, with categories of either type in the store.       *)
(***************************************************************************)
UpdateTypes == {""} \cup Types

UpdateHints ==
  {<<n, 0>> : n \in {<<"o", "e">>, <<"+">>}}
    \cup {<<(<<>>), i>> : i \in 0..MaxCats}

(* <<id, type, categoryName, categoryId, db>>: the save fails only in an   *)
(* update of the type alone                                                *)
UpdateInputs ==
  {<<id, type, h[1], h[2], "ok">> :
     id \in 1..(MaxTxns + 1), type \in UpdateTypes, h \in UpdateHints}
    \cup {<<1, "income", (<<>>), 0, db>> : db \in DbOutcomes}

NextUpdate ==
  \/ uploadReceipt("u1", TRUE, "undefined", "true", "ok", "ok", FALSE, <<>>, 0, "ok")
  \/ \E text \in ManualTexts :
       uploadTransactionHistory("u1", TRUE, FALSE, text, "ok")
  \/ \E type \in Types, id \in 1..MaxCats :
       createTransaction("u1", type, <<>>, id, None, None, "ok")
  \/ \E i \in UpdateInputs :
       updateTransaction("u1", i[1], i[2], i[3], i[4], i[5])

SpecUpdate == Init /\ [][NextUpdate]_vars

(***************************************************************************)
(* Create-from-extracted with overrides of the amount, the description and *)
(* the date.                                                               *)
(***************************************************************************)
OverrideAmounts ==
  { None,
    Some([num |-> TRUE, text |-> <<"0">>]),
    Some([num |-> TRUE, text |-> <<"2">>]),
    Some([num |-> FALSE, text |-> <<"5">>]) }

(* one override at a time, and all three together *)
Overrides ==
  {[NoOverrides EXCEPT !.amount = a] : a \in OverrideAmounts}
    \cup {[NoOverrides EXCEPT !.description = Some("Lunch")],
          [NoOverrides EXCEPT !.date = Some("2024-02-01")],
          [amount |-> Some([num |-> TRUE, text |-> <<"2">>]),
           description |-> Some("Lunch"), date |-> Some("2024-02-01")]}

(* <<overrides, db>>: the write fails only in a request without overrides *)
DraftInputs ==
  {<<o, "ok">> : o \in Overrides} \cup {<<NoOverrides, db>> : db \in DbOutcomes}

NextDraft ==
  \/ createTransactionFromReceipt("u1", None, None, NoOverrides, <<>>, 0, "ok")
  \/ \E i \in DraftInputs, f \in 1..MaxFiles :
       createTransactionFromReceipt("u1", Some(CleanReceipt), Some(f), i[1],
                                    <<>>, 0, i[2])

SpecDraft == Init /\ [][NextDraft]_vars

(***************************************************************************)
(* Imports: statements whose lines are well formed, or have too few        *)
(* fields, a date or an amount that does not parse, a zero amount, or a    *)
(* category name that is no regular expression.                            *)
(***************************************************************************)
Shop == <<"S", "h", "o", "p">>

ImportDescriptions ==
  { <<"P", "a", "y", "m", "e", "n", "t">>, <<"P", "A", "Y", "M", "E", "N", "T">>,
    <<"P", "a", "y">> }

ImportAmounts ==
  { <<"-", "5">>, <<"5">>, <<"$", "5">>, <<"5", "-">>, <<"0">>, <<"x">> }

Line(n, date, description, amount, category) ==
  [n |-> n, date |-> date, description |-> description, amount |-> amount,
   category |-> category]

ImportLines ==
  {Line(3, "2024-01-05", Shop, a, <<>>) : a \in ImportAmounts}
    \cup {Line(3, "2024-01-05", d, <<"5">>, <<>>) : d \in ImportDescriptions}
    \cup { Line(3, "2024-01-05", <<"P", "a", "y", "m", "e", "n", "t">>, <<"-", "5">>, <<>>),
           Line(3, "not-a-date", Shop, <<"5">>, <<>>),
           Line(2, "2024-01-05", Shop, <<>>, <<>>),
           Line(4, "2024-01-05", Shop, <<"5">>, <<"+">>),
           Line(4, "2024-01-05", Shop, <<"-", "5">>, <<"g", "r">>) }

(* the lines that make up the longer statements *)
CoreLines ==
  { Line(3, "2024-01-05", Shop, <<"5">>, <<>>),
    Line(3, "2024-01-05", Shop, <<"x">>, <<>>),
    Line(3, "not-a-date", Shop, <<"5">>, <<>>),
    Line(2, "2024-01-05", Shop, <<>>, <<>>),
    Line(4, "2024-01-05", Shop, <<"5">>, <<"+">>) }

ImportTexts ==
  {<<HeaderLine>>} \cup {<<HeaderLine, l>> : l \in ImportLines} \cup TextsOf(CoreLines)

(* <<text, db>>: insertMany fails in imports of well formed lines *)
ImportInputs ==
  {<<text, "ok">> : text \in ImportTexts}
    \cup {<<text, "createFails">> :
            text \in TextsOf({Line(3, "2024-01-05", Shop, <<"5">>, <<>>)})}

NextImport ==
  \/ uploadTransactionHistory("u1", FALSE, FALSE, <<>>, "ok")
  \/ uploadTransactionHistory("u1", TRUE, TRUE, <<>>, "ok")
  \/ \E i \in ImportInputs :
       uploadTransactionHistory("u1", TRUE, FALSE, i[1], i[2])

SpecImport == Init /\ [][NextImport]_vars

(***************************************************************************)
(* Receipt files of two users: uploads, create-from-extracted with any     *)
(* file name, and downloads.                                               *)
(***************************************************************************)
NextFiles ==
  \/ \E u \in Users :
       uploadReceipt(u, TRUE, "undefined", "true", "ok", "ok", FALSE, <<>>, 0, "ok")
  \/ \E u \in Users, f \in 1..MaxFiles :
       createTransactionFromReceipt(u, Some(CleanReceipt), Some(f), NoOverrides,
                                    <<>>, 0, "ok")
  \/ \E u \in Users, f \in 1..MaxFiles : getReceiptFile(u, f)

SpecFiles == Init /\ [][NextFiles]_vars

(***************************************************************************)
(* Extraction across its awaits.  The event loop runs a handler whose      *)
(* awaited promise has settled, so the handler's steps are weakly fair;    *)
(* nothing obliges an engine to settle its promise.                        *)
(***************************************************************************)
NextAwait ==
  \/ \E u \in Users, hint \in Hints : extractBegin(u, hint)
  \/ \E outcome \in Outcomes, nr \in BOOLEAN :
       /\ (outcome # "ok" => ~nr)
       /\ engineSettles(outcome, nr)
  \/ extractResume

SpecAwait == Init /\ [][NextAwait]_vars /\ WF_vars(extractResume)

(***************************************************************************)
(* Re-processing of stored receipts: uploads, then process-receipt for     *)
(* every file name, engine hint and engine outcome.                        *)
(***************************************************************************)
NextReprocess ==
  \/ uploadReceipt("u1", TRUE, "undefined", "true", "ok", "ok", FALSE, <<>>, 0, "ok")
  \/ \E f \in 1..MaxFiles, hint \in UploadHints, o \in OcrInputs :
       processUploadedReceipt("u1", f, hint, o[1], o[2], o[3])

SpecReprocess == Init /\ [][NextReprocess]_vars

(***************************************************************************)
(* Two uploads of one user in flight together, their awaits interleaved in *)
(* every order.                                                            *)
(***************************************************************************)
NextPair ==
  \/ \E u \in Users, cname \in NameHints : uploadPairBegin(u, cname)
  \/ \E r \in Requests : uploadFindHinted(r)
  \/ \E r \in Requests : uploadFindDefault(r)
  \/ \E r \in Requests : uploadCreateCategory(r)
  \/ \E r \in Requests : uploadWrite(r)

SpecPair == Init /\ [][NextPair]_vars

(***************************************************************************)
(* Temp uploads of two users, and manual creation by either user with any  *)
(* temp handle.                                                            *)
(***************************************************************************)
NextShare ==
  \/ \E u \in Users : extractReceiptData(u, TRUE, "undefined", "ok", "ok", FALSE)
  \/ \E u \in Users, handle \in ReceiptHandles :
       createTransaction(u, "expense", <<>>, 1, handle,
                         IF handle = None THEN None ELSE Some(CleanReceipt), "ok")

SpecShare == Init /\ [][NextShare]_vars

(***************************************************************************)
(* The category hierarchy: categories created with or without a parent,    *)
(* and updates of the parent alone.                                        *)
(***************************************************************************)
TreeNames == {<<"g", "r">>, <<"o", "e">>, <<"s", "h">>}

NextTree ==
  \/ \E name \in TreeNames, parent \in 0..MaxCats :
       createCategory("u1", name, "expense", parent)
  \/ \E id \in 1..MaxCats, parent \in 0..MaxCats :
       updateCategory("u1", id, <<>>, "", parent, "undefined")

SpecTree == Init /\ [][NextTree]_vars

(***************************************************************************)
(* Category names and types: categories created under names that differ in *)
(* case only, and updates of the name, of the type, or of both.            *)
(***************************************************************************)
CaseNames == {<<"o", "e">>, <<"O", "E">>}

(* <<name, type>> of an update, one of them present at least *)
Renames ==
  {nt \in (CaseNames \cup {<<>>}) \X (Types \cup {""}) : nt # <<(<<>>), "">>}

NextNames ==
  \/ \E name \in CaseNames, type \in Types :
       createCategory("u1", name, type, 0)
  \/ \E id \in 1..MaxCats, nt \in Renames :
       updateCategory("u1", id, nt[1], nt[2], -1, "undefined")

SpecNames == Init /\ [][NextNames]_vars

(***************************************************************************)
(* Deletion: categories with and without a parent, switched active and     *)
(* inactive, deleted by either user, and one user's transactions created,  *)
(* moved to another category and soft-deleted.                             *)
(***************************************************************************)
DeleteNames == {<<"g", "r">>, <<"o", "e">>}

NextDelete ==
  \/ \E name \in DeleteNames, parent \in 0..1 :
       createCategory("u1", name, "expense", parent)
  \/ \E id \in 1..MaxCats, isActive \in {"true", "false"} :
       updateCategory("u1", id, <<>>, "", -1, isActive)
  \/ \E u \in Users, id \in 1..MaxCats : deleteCategory(u, id)
  \/ \E id \in 1..MaxCats :
       createTransaction("u1", "expense", <<>>, id, None, None, "ok")
  \/ \E cid \in 1..MaxCats :
       updateTransaction("u1", 1, "", <<>>, cid, "ok")
  \/ \E id \in 1..MaxTxns : deleteTransaction("u1", id)

SpecDelete == Init /\ [][NextDelete]_vars

(***************************************************************************)
(* The requests the extraction claims are about.                           *)
(***************************************************************************)
IsExtract == req.op = "extractReceiptData" /\ req.file
IsUpload == req.op = "uploadReceipt" /\ req.file
IsUploadAuto == IsUpload /\ req.autoProcess # "false"
IsExtraction == IsExtract \/ IsUploadAuto

(* C1: in extractReceiptData and in uploadReceipt with auto-processing on, *)
(* a failed cloud call under the hint 'textract' is followed by exactly    *)
(* one call of the offline engine, and a failed offline call under the     *)
(* hint 'tesseract' is followed by no further engine call.                 *)
C1_FallbackOnce ==
  IsExtraction =>
    /\ (req.ocrEngine = "textract" /\ req.primary # "ok")
          => calls = <<"textract", "tesseract">>
    /\ (req.ocrEngine = "tesseract" /\ req.primary # "ok")
          => calls = <<"tesseract">>

C1_Witness ==
  /\ IsUploadAuto
  /\ req.ocrEngine = "textract"
  /\ req.primary = "throw"
  /\ calls = <<"textract", "tesseract">>

(* C2: with the engine hint absent or not a recognised engine name, the    *)
(* cloud engine is invoked first and, when it fails, the offline engine    *)
(* is invoked once as fallback, as with the hint 'textract'.               *)
C2_UnknownHintAsCloud ==
  (IsExtraction /\ req.ocrEngine \notin {"textract", "tesseract"}) =>
    /\ calls[1] = "textract"
    /\ req.primary # "ok" => calls = <<"textract", "tesseract">>

(* C3: whatever the engine calls do (return a receipt, throw, return null) *)
(* extractReceiptData answers either success with the extracted receipt,   *)
(* or a failure with extractedData = null, a processingError and           *)
(* fallbackToManual = true.                                                *)
C3_StructuredAnswer ==
  IsExtract =>
    \/ /\ res.success
       /\ res.extractedData # None
    \/ /\ ~res.success
       /\ res.extractedData = None
       /\ res.processingError # None
       /\ res.fallbackToManual

(* C4: extractReceiptData and uploadReceipt report extracted data only if  *)
(* an engine invocation of the same request returned a receipt; when the   *)
(* primary and the fallback attempt both fail, the response carries no     *)
(* extracted data and no transaction is created, and when both ended in an *)
(* error the response reports the primary and the fallback error.          *)
AnEngineReturned ==
  \/ req.primary = "ok"
  \/ Len(calls) = 2 /\ req.fallback = "ok"

C5_NoAutoFileUnderReview ==
  [][ (IsUpload /\ req.needsReview)' => transactions' = transactions ]_vars

(***************************************************************************)
(* The requests the category claims are about.                             *)
(***************************************************************************)
IsFiling == IsUploadAuto /\ AnEngineReturned
IsCreateFrom == req.op = "createTransactionFromReceipt" /\ req.complete
IsManual == req.op = "createTransaction"
IsImport == req.op = "uploadTransactionHistory" /\ req.file /\ ~req.pdf

(* C6: within one import batch the records sharing a (category-name hint,  *)
(* type) create at most one category between them: a hint that matched no  *)
(* category is created by its first record and found by the later ones.    *)
C6_OneCategoryPerHint ==
  [][ IsImport' =>
        LET recs == parseTabularData(req'.text)
            keys == {<<recs[i].categoryName, recs[i].type>> : i \in 1..Len(recs)}
        IN Len(categories') - Len(categories) <= Cardinality(keys) ]_vars

(* C7: a request that gives a category name and no category id never ends  *)
(* in a 'not found' answer, in the receipt flows and in createTransaction. *)
C7_NameHintAlwaysResolves ==
  ((IsFiling \/ IsCreateFrom \/ IsManual)
     /\ req.categoryName # <<>> /\ req.categoryId = 0)
    => res.status # 404

(* C8: uploadReceipt, createTransactionFromReceipt and createTransaction   *)
(* given a category id that names no category of the user or default scope *)
(* answer not-found, and write no category and no transaction.             *)
C8_MissingIdIsNotFound ==
  [][ ((IsFiling \/ IsCreateFrom \/ IsManual)'
         /\ req'.categoryId # 0
         /\ FindById(categories, req'.categoryId, req'.user) = 0)
        => /\ res'.status = 404
           /\ categories' = categories
           /\ transactions' = transactions ]_vars

(* C9: createTransaction with a category whose type is neither 'both' nor  *)
(* the transaction's type answers a conflict error that names the          *)
(* category, and changes nothing: no transaction is written, no receipt    *)
(* file is moved.                                                          *)
C9_ConflictRejected ==
  [][ IsManual' =>
        LET found == ManualLookup(categories, req'.user, req'.categoryName,
                                  req'.categoryId)
        IN (found.status = 0
              /\ categories[found.id].type \notin {"both", req'.type})
             => /\ res'.kind = "conflict"
                /\ ~res'.success
                /\ res'.message = Some(categories[found.id].name)
                /\ UNCHANGED <<categories, transactions, tempFiles,
                               receiptFiles, nextFile>> ]_vars

C9_Witness ==
  /\ IsManual
  /\ res.kind = "conflict"
  /\ req.receiptFileInfo # None
  /\ TempFileAt(req.receiptFileInfo[1]) # {}
  /\ Len(transactions) < MaxTxns

(* C10: every transaction written by uploadReceipt,                        *)
(* createTransactionFromReceipt or uploadTransactionHistory references a   *)
(* category whose type is the transaction's type or 'both'.                *)
C10_WrittenTypeCompatible ==
  [][ (IsUpload \/ IsCreateFrom \/ IsImport)' =>
        \A i \in (Len(transactions) + 1)..Len(transactions') :
          categories'[transactions'[i].categoryId].type
            \in {"both", transactions'[i].type} ]_vars

IsUpdate == req.op = "updateTransaction"

(* C11: after a successful updateTransaction the transaction's type is its *)
(* category's type or the category's type is 'both', also when the update  *)
(* changes the type and keeps the stored category.                         *)
C11_UpdateKeepsCompatible ==
  [][ (IsUpdate /\ res.success)' =>
        LET t == transactions'[req'.id]
        IN categories'[t.categoryId].type \in {"both", t.type} ]_vars

(* C12: the transaction createTransactionFromReceipt persists carries      *)
(* every amount, description and date the request's overrides supply, in   *)
(* place of the receipt's value.                                           *)
C12_OverridesWin ==
  [][ (IsCreateFrom' /\ Len(transactions') > Len(transactions)) =>
        LET t == transactions'[Len(transactions')]
            o == req'.overrides
        IN /\ o.amount # None => t.amount = ParseFloat(o.amount[1].text).value
           /\ o.description # None => t.description = o.description[1]
           /\ o.date # None => t.date = o.date[1] ]_vars

(* A createTransaction request that carries a receipt, names a category    *)
(* of a compatible type and meets no database error.                       *)
ManualWithReceipt ==
  /\ IsManual
  /\ req.receiptFileInfo # None /\ req.receiptData # None
  /\ req.db = "ok"

(* C13: when the move of the temp receipt file fails in createTransaction  *)
(* the transaction is persisted all the same, without a receipt and with   *)
(* every other field as in a request without receipt, and the request is   *)
(* answered as created.                                                    *)
C13_MoveFailureDegrades ==
  [][ (ManualWithReceipt' /\ TempFileAt(req'.receiptFileInfo[1]) = {}) =>
        /\ res'.kind = "created"
        /\ res'.transaction[1].receipt = FALSE
        /\ transactions' =
             Append(transactions,
                    [userId |-> req'.user, type |-> req'.type,
                     categoryId |-> res'.transaction[1].categoryId,
                     amount |-> 5, description |-> "Manual",
                     date |-> "2024-01-05",
                     receipt |-> None, isDeleted |-> FALSE,
                     isImported |-> FALSE])
        /\ UNCHANGED <<tempFiles, receiptFiles>> ]_vars

C13_Witness ==
  /\ ManualWithReceipt
  /\ res.kind = "created"
  /\ transactions[Len(transactions)].receipt = None
  /\ tempFiles # {}

(* The handle of the request was promoted by an earlier createTransaction. *)
PromotedBefore(handle) == \E f \in receiptFiles : f.from = handle

(* C14: a createTransaction that carries a handle an earlier request       *)
(* promoted fails at its move: no file is moved or written, the receipt    *)
(* files and the transactions of the earlier requests stay as they were,   *)
(* and the transaction of this request, if one is written, has no receipt. *)
C14_SecondPromotionFails ==
  [][ (ManualWithReceipt' /\ PromotedBefore(req'.receiptFileInfo[1])) =>
        /\ UNCHANGED <<tempFiles, receiptFiles, nextFile>>
        /\ SubSeq(transactions', 1, Len(transactions)) = transactions
        /\ \A i \in (Len(transactions) + 1)..Len(transactions') :
             transactions'[i].receipt = None
        /\ res'.success => res'.transaction[1].receipt = FALSE ]_vars

C14_Witness ==
  /\ ManualWithReceipt
  /\ PromotedBefore(req.receiptFileInfo[1])
  /\ Len(transactions) = 2
  /\ transactions[1].receipt # None
  /\ transactions[2].receipt = None

(* The transactions whose receipt refers to the stored receipt file f. *)
BoundTo(f) ==
  {i \in 1..Len(transactions) :
     transactions[i].receipt # None /\ transactions[i].receipt[1].filename = f.id}

(* C15: every stored receipt file is the receipt of at most one            *)
(* transaction.                                                            *)
C15_OneTransactionPerFile ==
  \A f \in receiptFiles : Cardinality(BoundTo(f)) <= 1

(* C16: when uploadReceipt extracted a receipt and the filing of the       *)
(* transaction failed afterwards, the request is answered 200 with the     *)
(* extracted receipt and with needsManualReview set.                       *)
C16_DegradesToReview ==
  (IsFiling /\ req.db \in {"unused", "createFails", "populateFails"}) =>
    /\ res.status = 200 /\ res.success
    /\ res.extractedData # None
    /\ res.needsManualReview

(***************************************************************************)
(* What the lines of a statement are, read off the line: the claims about  *)
(* the import are stated against these.                                    *)
(***************************************************************************)
DataLinesOf(text) == 2..Len(text)

LineIsBad(line) ==
  \/ line.n < 3
  \/ line.date = "not-a-date"
  \/ line.amount \in {<<"0">>, <<"x">>}

BadLines(text) == {i \in DataLinesOf(text) : LineIsBad(text[i])}

HasMinus(amount) == \E i \in 1..Len(amount) : amount[i] = "-"

SaysPayment(description) ==
  description \in { <<"P", "a", "y", "m", "e", "n", "t">>,
                    <<"P", "A", "Y", "M", "E", "N", "T">> }

(* C17: an import that is answered with a result reports every line that   *)
(* failed parsing among its errors.                                        *)
C17_BadLinesReported ==
  (IsImport /\ res.kind = "imported") =>
    \A i \in BadLines(req.text) :
      \E j \in 1..Len(res.message[1].errorLines) : res.message[1].errorLines[j] = i

(* The candidate record the parser emitted for line i of the text, if any. *)
RecordsOfLine(text, i) ==
  LET recs == parseTabularData(text)
  IN {recs[k] : k \in {j \in 1..Len(recs) : recs[j].line = i}}

(* C18: every candidate record of the parser has the amount 5 of its line, *)
(* a positive amount whatever the sign and the currency mark, and is an    *)
(* expense exactly when the amount field has a minus sign or the           *)
(* description says payment in any case, an income otherwise.              *)
C18_AmountAndType ==
  IsImport =>
    \A i \in DataLinesOf(req.text) :
      \A rec \in RecordsOfLine(req.text, i) :
        /\ rec.amount > 0
        /\ rec.amount = 5
        /\ rec.type = IF HasMinus(req.text[i].amount)
                           \/ SaysPayment(req.text[i].description)
                        THEN "expense" ELSE "income"

C18_Witness ==
  /\ IsImport
  /\ res.kind = "imported"
  /\ req.text[2].amount = <<"$", "5">>
  /\ transactions # <<>>
  /\ transactions[Len(transactions)].type = "income"
  /\ transactions[Len(transactions)].amount = 5

(* C19: an import none of whose lines yields a record is answered with the *)
(* failure 'No valid transactions found', which is no import result with   *)
(* per-line errors, and writes no transaction and no category.             *)
C19_NoValidRecordsFails ==
  [][ (IsImport' /\ BadLines(req'.text) = DataLinesOf(req'.text)) =>
        /\ res'.kind = "noValidTransactions"
        /\ ~res'.success /\ res'.status = 500
        /\ res'.message = Some("No valid transactions found in the uploaded file")
        /\ UNCHANGED <<categories, transactions>> ]_vars

C19_Witness ==
  /\ IsImport
  /\ Len(req.text) = 3
  /\ BadLines(req.text) = DataLinesOf(req.text)
  /\ res.kind = "noValidTransactions"
  /\ transactions # <<>>

(* C20: every candidate record of an import is counted as imported or is   *)
(* among the returned errors: the two counts add up to the number of       *)
(* candidate records, whichever record fails resolution or persistence.    *)
C20_EveryRecordAccounted ==
  (IsImport /\ BadLines(req.text) # DataLinesOf(req.text)) =>
    /\ res.kind = "imported"
    /\ res.message[1].imported + res.message[1].errors
         = Cardinality(DataLinesOf(req.text) \ BadLines(req.text))

(* C21: getReceiptFile sends a stored receipt file only to the user who    *)
(* uploaded it.                                                            *)
C21_ReceiptOnlyToUploader ==
  (req.op = "getReceiptFile" /\ res.kind = "file") =>
    \A f \in ReceiptFileAt(req.filename) : f.owner = req.user

(* C22: every extraction request is eventually answered, even when an      *)
(* engine call never returns.                                              *)
C22_ExtractionAnswered ==
  (res.kind = "pending") ~> (res.kind # "pending")

(* C23: a name hint that matches no category never becomes the name of a   *)
(* new category: every category a request creates carries one of the fixed *)
(* default names (the import's own default for a line without a category   *)
(* included).                                                              *)
C23_NoCategoryUnderHint ==
  [][ \A i \in (Len(categories) + 1)..Len(categories') :
        categories'[i].name \in CreateDefaultNames \cup {Imported} ]_vars

(* C24: when processUploadedReceipt's cloud engine call fails on a stored  *)
(* receipt, the offline engine is invoked once after it, and the request   *)
(* succeeds whenever that fallback succeeds.                               *)
C24_ReprocessFallsBack ==
  ( /\ req.op = "processUploadedReceipt"
    /\ res.kind # "fileNotFound"
    /\ DefaultEngine(req.ocrEngine) = "textract"
    /\ req.primary # "ok" ) =>
      /\ calls = <<"textract", "tesseract">>
      /\ (req.fallback = "ok" => res.success)

(* C25: when two requests of one owner resolve the same unmatched name     *)
(* hint together, one category is created and both requests use it,        *)
(* however their find and create steps interleave.                         *)
C25_OneCategoryForBoth ==
  (req.op = "uploadReceiptPair" /\ req.unmatched /\ ~InFlight) =>
    /\ Len(categories) = req.before + 1
    /\ \A r \in Requests : req.category[r] = req.before + 1

(* C26: the answer of an uploadReceipt request carries a transaction       *)
(* exactly when that request persisted one.                                *)
C26_TransactionIffPersisted ==
  [][ (req'.op = "uploadReceipt" /\ req'.file) =>
        ((res'.transaction # None) <=> (Len(transactions') > Len(transactions))) ]_vars

(* C27: createTransaction moves out of temp storage only files that the    *)
(* requesting user uploaded.                                               *)
C27_MovesOnlyOwnTemp ==
  [][ req'.op = "createTransaction" =>
        \A f \in tempFiles \ tempFiles' : f.owner = req'.user ]_vars

(* The categories reached from category i by following k parent links or   *)
(* fewer, i excluded unless a link leads back to it.                       *)
RECURSIVE Ancestors(_, _, _)
Ancestors(cats, i, k) ==
  IF k = 0 \/ cats[i].parentCategory \notin 1..Len(cats) THEN {}
  ELSE {cats[i].parentCategory}
         \cup Ancestors(cats, cats[i].parentCategory, k - 1)

(* C28: the parentCategory relation is acyclic: no category is reached     *)
(* from itself by following parent links, at any depth.                    *)
C28_ParentsAcyclic ==
  \A i \in 1..Len(categories) : i \notin Ancestors(categories, i, Len(categories))

(* C29: no owner has two categories with the same name, case ignored, and  *)
(* the same type.                                                          *)
C29_NamesUniquePerType ==
  \A i, j \in 1..Len(categories) :
    ( /\ i # j
      /\ categories[i].userId \in Users
      /\ categories[i].userId = categories[j].userId
      /\ categories[i].type = categories[j].type )
      => ToLowerCase(categories[i].name) # ToLowerCase(categories[j].name)

(* C30: a step never removes a category that a non-deleted transaction     *)
(* references or that has an active subcategory, and after every step each *)
(* non-deleted transaction's categoryId is a category of the store.        *)
C30_DeleteKeepsReferences ==
  [][ /\ \A c \in 1..Len(categories) :
           (categories[c] # Removed /\ categories'[c] = Removed) =>
             /\ \A i \in 1..Len(transactions) :
                  transactions[i].categoryId = c => transactions[i].isDeleted
             /\ \A k \in 1..Len(categories) :
                  categories[k].parentCategory = c => ~categories[k].isActive
      /\ \A i \in 1..Len(transactions') :
           ~transactions'[i].isDeleted =>
             /\ transactions'[i].categoryId \in 1..Len(categories')
             /\ categories'[transactions'[i].categoryId] # Removed ]_vars

C30_Witness ==
  /\ req.op = "deleteCategory"
  /\ res.kind = "categoryDeleted"
  /\ \E i, j \in 1..Len(transactions) :
       /\ transactions[i].isDeleted
       /\ categories[transactions[i].categoryId] = Removed
       /\ ~transactions[j].isDeleted

====
